---- MODULE Spec2Model ----
(***************************************************************************)
(* Engine-session protocol layer of the chess-analysis repository.         *)
(*                                                                         *)
(* Two streaming routes are modelled, both named evaluatePositionStream:   *)
(*   - the spawned-process route  (src/unnamed/part_001, lines 177-391),   *)
(*   - the worker route           (src/unnamed/part_000, lines  35-260),   *)
(*     whose engine worker is the module-level singleton stockfishInstance.*)
(* Engine text is kept as text: lines and chunks are strings, and the      *)
(* regular expressions of parseInfoLine are computed on their characters.  *)
(***************************************************************************)
EXTENDS Integers, Sequences, FiniteSets, TLC

\*   route              which of the two route files serves the requests
\*   sess               per request: the closure of its evaluatePositionStream
\*                      call and its ReadableStream controller
\*   chan               the engine channels (spawned processes / workers)
\*   stockfishInstance  the worker route's module-level singleton (0: null)
\*   events             channel events delivered so far
\*   probe              observation record of the specifications that feed a
\*                      fixed engine text or single engine lines to the code
VARIABLES route, sess, chan, stockfishInstance, events, probe

vars == <<route, sess, chan, stockfishInstance, events, probe>>

(***************************************************************************)
(* Bounds of the model.                                                    *)
(***************************************************************************)
\* Process route: stdout chunks and error events delivered in one behaviour.
MaxEvents == 3

\* Worker route: worker messages and error events delivered in one behaviour.
MaxMessages == 2

\* The evaluation requests of a behaviour.  Process-route sessions share no
\* state (every call spawns its own process and owns its own closure), so one
\* of them is run; the worker route runs both against the singleton.
Sessions == {1, 2}

(***************************************************************************)
(* Strings (JavaScript String methods used by the routes).                 *)
(***************************************************************************)
Min(S) == CHOOSE x \in S : \A y \in S : x <= y

Char(s, i) == SubSeq(s, i, i)

\* String.prototype.startsWith
StartsWith(s, p) == Len(s) >= Len(p) /\ SubSeq(s, 1, Len(p)) = p

\* Positions at which p occurs in s.
Occurrences(s, p) ==
    {j \in 1..(Len(s) - Len(p) + 1) : SubSeq(s, j, j + Len(p) - 1) = p}

\* String.prototype.indexOf, 1-based; 0 when p does not occur.
IndexOf(s, p) == IF Occurrences(s, p) = {} THEN 0 ELSE Min(Occurrences(s, p))

\* String.prototype.includes
Includes(s, p) == IndexOf(s, p) # 0

Digits == {"0", "1", "2", "3", "4", "5", "6", "7", "8", "9"}

\* \w of a regular expression: letters, digits and underscore.
WordChars ==
    Digits \cup {"_"} \cup
    {"a", "b", "c", "d", "e", "f", "g", "h", "i", "j", "k", "l", "m",
     "n", "o", "p", "q", "r", "s", "t", "u", "v", "w", "x", "y", "z"} \cup
    {"A", "B", "C", "D", "E", "F", "G", "H", "I", "J", "K", "L", "M",
     "N", "O", "P", "Q", "R", "S", "T", "U", "V", "W", "X", "Y", "Z"}

\* The longest run of characters of class C that starts at position i
\* (a greedy C+ anchored at i); "" when the character at i is not in C.
RECURSIVE Run(_, _, _)
Run(s, i, C) ==
    IF i <= Len(s) /\ Char(s, i) \in C
    THEN Char(s, i) \o Run(s, i + 1, C)
    ELSE ""

\* Group 1 of the leftmost match of /<key> (\d+)/ in s; "" stands for the
\* null of a failed match (a matched group is never empty).
MatchDigits(s, key) ==
    LET p  == key \o " "
        at == {j \in Occurrences(s, p) : Run(s, j + Len(p), Digits) # ""}
    IN  IF at = {} THEN "" ELSE Run(s, Min(at) + Len(p), Digits)

\* Group 1 of the leftmost match of /<key> (-?\d+)/ in s; "" when none.
SignedAt(s, i) ==
    IF i <= Len(s) /\ Char(s, i) = "-"
    THEN (IF Run(s, i + 1, Digits) = "" THEN "" ELSE "-" \o Run(s, i + 1, Digits))
    ELSE Run(s, i, Digits)

MatchSigned(s, key) ==
    LET p  == key \o " "
        at == {j \in Occurrences(s, p) : SignedAt(s, j + Len(p)) # ""}
    IN  IF at = {} THEN "" ELSE SignedAt(s, Min(at) + Len(p))

\* Group 1 of the leftmost match of /<key> (\w+)/ in s; "" when none.
MatchWord(s, key) ==
    LET p  == key \o " "
        at == {j \in Occurrences(s, p) : Run(s, j + Len(p), WordChars) # ""}
    IN  IF at = {} THEN "" ELSE Run(s, Min(at) + Len(p), WordChars)

\* Group 1 of the leftmost match of /<key> (.+)/ in s: the rest of the line
\* ("." matches every character of a line, which holds no newline).
MatchRest(s, key) ==
    LET p  == key \o " "
        at == {j \in Occurrences(s, p) : j + Len(p) <= Len(s)}
    IN  IF at = {} THEN "" ELSE SubSeq(s, Min(at) + Len(p), Len(s))

DigitValue(c) == CHOOSE d \in 0..9 : Char("0123456789", d + 1) = c

RECURSIVE ParseDigits(_)
ParseDigits(s) ==
    IF s = "" THEN 0
    ELSE 10 * ParseDigits(SubSeq(s, 1, Len(s) - 1)) + DigitValue(Char(s, Len(s)))

\* parseInt(s, 10) of a string matched by -?\d+
parseInt(s) ==
    IF Char(s, 1) = "-" THEN 0 - ParseDigits(SubSeq(s, 2, Len(s)))
    ELSE ParseDigits(s)

\* String.prototype.split with a one-character separator.
RECURSIVE Split(_, _)
Split(s, sep) ==
    LET i == IndexOf(s, sep)
    IN  IF i = 0 THEN <<s>>
        ELSE <<SubSeq(s, 1, i - 1)>> \o Split(SubSeq(s, i + 1, Len(s)), sep)

\* Array.prototype.slice(0, n)
Slice0(a, n) == SubSeq(a, 1, IF Len(a) < n THEN Len(a) ELSE n)

(***************************************************************************)
(* Data model: StockfishEvaluation and the emitted snapshots.              *)
(***************************************************************************)
\* evaluation: number | string | null.  A number is a score in pawns, kept
\* exactly as its count of hundredths (evalCp / 100 is `hundredths' / 100).
EvalNull == [tag |-> "null", hundredths |-> 0, text |-> ""]
EvalNumber(evalCp) == [tag |-> "number", hundredths |-> evalCp, text |-> ""]
EvalString(str) == [tag |-> "string", hundredths |-> 0, text |-> str]

\* nps?: number -- absent until the bestmove branch computes it.
NpsAbsent == [present |-> FALSE, value |-> 0]
NpsOf(n) == [present |-> TRUE, value |-> n]

\* The running result object of a streaming session.
NewResult(fen) ==
    [evaluation |-> EvalNull, bestMove |-> "", principalVariation |-> <<>>,
     depth |-> 0, nodes |-> 0, time |-> 0, nps |-> NpsAbsent, fen |-> fen]

\* slice(0, 6) of the principal variation.
PvLimit == 6

\* result.fen.split(' ')[1] ("" stands for undefined).
SideToMove(fen) == IF Len(Split(fen, " ")) >= 2 THEN Split(fen, " ")[2] ELSE ""

\* Mutation: the quotient is truncated instead of rounded.
RoundDivDown(n, d) == n \div d

\* Math.round of a non-negative quotient n / d (halves round up).
RoundDiv(n, d) == (n \div d) + (IF 2 * (n % d) >= d THEN 1 ELSE 0)

\* parseInfoLine, "Parse depth".
parseDepth(line, result) ==
    LET depthMatch == MatchDigits(line, "depth")
    IN  IF depthMatch # ""
        THEN [result EXCEPT !.depth = parseInt(depthMatch)]
        ELSE result

\* parseInfoLine, "Parse nodes".
parseNodes(line, result) ==
    LET nodesMatch == MatchDigits(line, "nodes")
    IN  IF nodesMatch # ""
        THEN [result EXCEPT !.nodes = parseInt(nodesMatch)]
        ELSE result

\* parseInfoLine, "Parse time".
parseTime(line, result) ==
    LET timeMatch == MatchDigits(line, "time")
    IN  IF timeMatch # ""
        THEN [result EXCEPT !.time = parseInt(timeMatch)]
        ELSE result

\* Mutation: the centipawn score is stored from the side to move's view.
parseScoreCpNoFlip(line, result) ==
    LET match  == MatchSigned(line, "score cp")
    IN  IF Includes(line, "score cp") /\ match # ""
        THEN [result EXCEPT !.evaluation = EvalNumber(parseInt(match))]
        ELSE result

\* parseInfoLine, "Parse centipawn evaluation" (always from White's side).
parseScoreCp(line, result) ==
    LET match  == MatchSigned(line, "score cp")
        evalCp == parseInt(match)
        flip   == result.fen # "" /\ SideToMove(result.fen) = "b"
    IN  IF Includes(line, "score cp") /\ match # ""
        THEN [result EXCEPT !.evaluation =
                 EvalNumber(IF flip THEN 0 - evalCp ELSE evalCp)]
        ELSE result

\* Mutation: the mate distance is negated when Black is to move, as the
\* centipawn score is.
parseScoreMateFlipped(line, result) ==
    LET match == MatchSigned(line, "score mate")
        flip  == result.fen # "" /\ SideToMove(result.fen) = "b"
        shown == IF ~flip THEN match
                 ELSE IF Char(match, 1) = "-" THEN SubSeq(match, 2, Len(match))
                 ELSE "-" \o match
    IN  IF Includes(line, "score mate") /\ match # ""
        THEN [result EXCEPT !.evaluation = EvalString("M" \o shown)]
        ELSE result

\* parseInfoLine, "Parse mate scores".
parseScoreMate(line, result) ==
    LET match == MatchSigned(line, "score mate")
    IN  IF Includes(line, "score mate") /\ match # ""
        THEN [result EXCEPT !.evaluation = EvalString("M" \o match)]
        ELSE result

\* parseInfoLine, "Parse principal variation".
parsePv(line, result) ==
    LET pvMatch == MatchRest(line, "pv")
    IN  IF Includes(line, "pv ") /\ pvMatch # ""
        THEN [result EXCEPT !.principalVariation =
                 Slice0(Split(pvMatch, " "), PvLimit)]
        ELSE result

\* function parseInfoLine(line, result): the six rules, in source order.
parseInfoLine(line, result) ==
    parsePv(line,
      parseScoreMate(line,
        parseScoreCp(line,
          parseTime(line,
            parseNodes(line,
              parseDepth(line, result))))))

\* JSON.stringify({ type: 'info', ...result }) / ({ type: 'done', ...result }):
\* a copy of the running result taken at the emission point.
Snapshot(type, result) ==
    [type |-> type, evaluation |-> result.evaluation,
     bestMove |-> result.bestMove,
     principalVariation |-> result.principalVariation,
     depth |-> result.depth, nodes |-> result.nodes, time |-> result.time,
     nps |-> result.nps, fen |-> result.fen]

\* JSON.stringify({ error: msg })
ErrorSnapshot(msg) == [error |-> msg]

IsError(snap) == "error" \in DOMAIN snap
IsInfo(snap) == ~IsError(snap) /\ snap.type = "info"
IsDone(snap) == ~IsError(snap) /\ snap.type = "done"

TimeoutMessage == "Stockfish evaluation timeout"
CommunicateMessage == "Failed to communicate with Stockfish"

(***************************************************************************)
(* Requests and engine output used to drive the sessions.                  *)
(***************************************************************************)
\* const { fen, depth = 18, timeLimit = 10000 } = body
DefaultDepth == 18

\* The request bodies that arrive: White to move at the default depth, and
\* Black to move at depth 5.
Requests ==
    {[fen |-> "8/8/8/8/8/8/8/K6k w - - 0 1", depth |-> DefaultDepth],
     [fen |-> "8/8/8/8/8/8/8/K6k b - - 0 1", depth |-> 5]}

\* Lines an engine writes (UCI).
LineDepth0 == "info depth 0 score mate 0"
LineDepth1 == "info depth 1 seldepth 2 score cp 35 nodes 2000 time 4 pv e2e4 e7e5"
LineDepth2 == "info depth 2 seldepth 3 score cp -12 nodes 9000 time 8 pv d2d4"
LineBest == "bestmove e2e4 ponder e7e5"
LineOther == "readyok"

\* One worker message carries one line.
Lines == {LineDepth0, LineDepth1, LineDepth2, LineBest, LineOther}

\* stdout chunks of the spawned process: whole lines, several lines at once,
\* and a line cut in two.
Chunks ==
    {l \o "\n" : l \in Lines} \cup
    {LineDepth2 \o "\n" \o LineBest \o "\n" \o LineDepth1 \o "\n",
     "info dep", "th 1 nodes 10\nbestm"}

\* The exit code of a 'close' event: number | null.
CodeNull == [isNull |-> TRUE, n |-> 0]
CodeOf(n) == [isNull |-> FALSE, n |-> n]
ExitCodes == {CodeNull, CodeOf(0), CodeOf(1)}
CodeText(code) == IF code.isNull THEN "null" ELSE ToString(code.n)

\* error.message of an error event, and the text of a thrown start failure.
ErrorMessages == {"EPIPE"}
StartFailures == {"Error: spawn EACCES"}

(***************************************************************************)
(* One session: the closure of one evaluatePositionStream call, together   *)
(* with the ReadableStream controller it writes to.                        *)
(*   pc        where the call stands (Idle, Fetching, AwaitReady, Spawned,  *)
(*             Armed, Wired, Running, Returned)                            *)
(*   ch        the channel (process or worker) the call holds, 0 = none    *)
(*   output, lastDepth, finished, result   the closure's variables         *)
(*   timer     None, Armed, Cleared or Fired                               *)
(*   out, closed   the controller: chunks enqueued so far, and closed      *)
(*   sent      the commands written so far                                 *)
(*   kills     the places that called stockfish.kill / terminate           *)
(*   parsed    history: result.depth after each parseInfoLine call, and    *)
(*             whether the controller was open at that call                *)
(*   threw     history: a handler ended with an uncaught exception         *)
(*   exc, ret  within one handler: an exception is propagating / the data  *)
(*             handler has returned                                        *)
(*   seen      within one handler: the lines its loop handed to the        *)
(*             info/bestmove dispatch                                      *)
(***************************************************************************)
IdleSession ==
    [pc |-> "Idle", fen |-> "", depth |-> 0, ch |-> 0,
     output |-> "", lastDepth |-> 0, finished |-> FALSE,
     result |-> NewResult(""), timer |-> "None",
     out |-> <<>>, closed |-> FALSE, sent |-> <<>>, kills |-> {},
     parsed |-> <<>>, threw |-> FALSE, exc |-> FALSE, ret |-> FALSE,
     seen |-> <<>>]

\* let output = ''; let lastDepth = 0; let finished = false; const result = ...
Declare(s, fen, depth, ch) ==
    [s EXCEPT !.pc = "Spawned", !.fen = fen, !.depth = depth, !.ch = ch,
              !.output = "", !.lastDepth = 0, !.finished = FALSE,
              !.result = NewResult(fen)]

(***************************************************************************)
(* Statements.  A statement is skipped while an exception propagates.      *)
(***************************************************************************)
\* controller.enqueue(chunk): throws a TypeError on a closed controller.
Enqueue(s, snap) ==
    IF s.exc THEN s
    ELSE IF s.closed THEN [s EXCEPT !.exc = TRUE]
    ELSE [s EXCEPT !.out = Append(@, snap)]

\* controller.close(): throws a TypeError on a closed controller.
Close(s) ==
    IF s.exc THEN s
    ELSE IF s.closed THEN [s EXCEPT !.exc = TRUE]
    ELSE [s EXCEPT !.closed = TRUE]

\* clearTimeout(timeout): a no-op unless the timer is pending.
ClearTimeout(s) ==
    IF s.exc THEN s
    ELSE [s EXCEPT !.timer = IF @ = "Armed" THEN "Cleared" ELSE @]

\* stockfish.kill('SIGTERM') / stockfish.terminate(), called at `site'.
Terminate(s, site) ==
    IF s.exc THEN s ELSE [s EXCEPT !.kills = @ \cup {site}]

\* The end of an event handler: an exception that reached it is uncaught.
EndHandler(s) ==
    [s EXCEPT !.threw = @ \/ s.exc, !.exc = FALSE, !.ret = FALSE,
              !.seen = <<>>]

(***************************************************************************)
(* Handlers of evaluatePositionStream, as functions of the session.        *)
(***************************************************************************)
\* Mutation: the timeout callback reports the timeout but leaves the engine
\* running.
TimeoutCallbackNoTerminate(s) ==
    IF ~s.finished
    THEN Close(Enqueue(s, ErrorSnapshot(TimeoutMessage)))
    ELSE s

\* Mutation: the timeout callback without its "already finished" guard.
TimeoutCallbackUnguarded(s) ==
    Close(Enqueue(Terminate(s, "timer"), ErrorSnapshot(TimeoutMessage)))

\* const timeout = setTimeout(() => { if (!finished) { ... } }, timeLimit)
TimeoutCallback(s) ==
    IF ~s.finished
    THEN Close(Enqueue(Terminate(s, "timer"), ErrorSnapshot(TimeoutMessage)))
    ELSE s

\* Mutation: the info branch emits when the depth did not decrease (>=
\* instead of >).
InfoBranchNotBelow(line, s) ==
    LET r  == parseInfoLine(line, s.result)
        s1 == [s EXCEPT !.result = r,
                        !.parsed = Append(@, [depth |-> r.depth,
                                              open |-> ~s.closed])]
    IN  IF r.depth >= s.lastDepth
        THEN Enqueue([s1 EXCEPT !.lastDepth = r.depth], Snapshot("info", r))
        ELSE s1

\* Mutation: the stream holds the running result itself instead of a copy, so
\* every snapshot already emitted shows the latest values.
InfoBranchShared(line, s) ==
    LET r  == parseInfoLine(line, s.result)
        s1 == [s EXCEPT !.result = r,
                        !.parsed = Append(@, [depth |-> r.depth,
                                              open |-> ~s.closed]),
                        !.out = [k \in 1..Len(@) |-> Snapshot("info", r)]]
    IN  IF r.depth > s.lastDepth
        THEN Enqueue([s1 EXCEPT !.lastDepth = r.depth], Snapshot("info", r))
        ELSE s1

\* if (line.startsWith('info') && line.includes('depth')) { ... }
InfoBranch(line, s) ==
    LET r  == parseInfoLine(line, s.result)
        s1 == [s EXCEPT !.result = r,
                        !.parsed = Append(@, [depth |-> r.depth,
                                              open |-> ~s.closed])]
    IN  IF r.depth > s.lastDepth
        THEN Enqueue([s1 EXCEPT !.lastDepth = r.depth], Snapshot("info", r))
        ELSE s1

\* Mutation: the bestmove branch emits 'done' but leaves the stream open.
BestmoveBranchNoClose(line, s) ==
    LET match == MatchWord(line, "bestmove")
        r1 == IF match # "" THEN [s.result EXCEPT !.bestMove = match]
              ELSE s.result
        r2 == IF r1.time > 0
              THEN [r1 EXCEPT !.nps = NpsOf(RoundDiv(r1.nodes * 1000, r1.time))]
              ELSE r1
        s1 == ClearTimeout([s EXCEPT !.result = r2, !.finished = TRUE])
        s2 == Terminate(Enqueue(s1, Snapshot("done", r2)), "bestmove")
    IN  [s2 EXCEPT !.ret = TRUE]

\* Mutation: nps is always computed, and reported as 0 when no time has run.
BestmoveBranchNpsAlways(line, s) ==
    LET match == MatchWord(line, "bestmove")
        r1 == IF match # "" THEN [s.result EXCEPT !.bestMove = match]
              ELSE s.result
        r2 == IF r1.time > 0
              THEN [r1 EXCEPT !.nps = NpsOf(RoundDiv(r1.nodes * 1000, r1.time))]
              ELSE [r1 EXCEPT !.nps = NpsOf(0)]
        s1 == ClearTimeout([s EXCEPT !.result = r2, !.finished = TRUE])
        s2 == Terminate(Close(Enqueue(s1, Snapshot("done", r2))), "bestmove")
    IN  [s2 EXCEPT !.ret = TRUE]

\* Mutation: the bestmove branch leaves the engine running.
BestmoveBranchNoKill(line, s) ==
    LET match == MatchWord(line, "bestmove")
        r1 == IF match # "" THEN [s.result EXCEPT !.bestMove = match]
              ELSE s.result
        r2 == IF r1.time > 0
              THEN [r1 EXCEPT !.nps = NpsOf(RoundDiv(r1.nodes * 1000, r1.time))]
              ELSE r1
        s1 == ClearTimeout([s EXCEPT !.result = r2, !.finished = TRUE])
        s2 == Close(Enqueue(s1, Snapshot("done", r2)))
    IN  [s2 EXCEPT !.ret = TRUE]

\* if (line.startsWith('bestmove')) { ...; return; }
BestmoveBranch(line, s) ==
    LET match == MatchWord(line, "bestmove")
        r1 == IF match # "" THEN [s.result EXCEPT !.bestMove = match]
              ELSE s.result
        r2 == IF r1.time > 0
              THEN [r1 EXCEPT !.nps = NpsOf(RoundDiv(r1.nodes * 1000, r1.time))]
              ELSE r1
        s1 == ClearTimeout([s EXCEPT !.result = r2, !.finished = TRUE])
        s2 == Terminate(Close(Enqueue(s1, Snapshot("done", r2))), "bestmove")
    IN  [s2 EXCEPT !.ret = TRUE]

\* The body run for one complete line.
HandleLine(line, s) ==
    LET s1 == IF StartsWith(line, "info") /\ Includes(line, "depth")
              THEN InfoBranch(line, s) ELSE s
    IN  IF ~s1.exc /\ StartsWith(line, "bestmove")
        THEN BestmoveBranch(line, s1) ELSE s1

\* for (const line of lines) { ... }
RECURSIVE ProcessLines(_, _)
ProcessLines(lines, s) ==
    IF lines = <<>> \/ s.exc \/ s.ret THEN s
    ELSE ProcessLines(Tail(lines),
                      HandleLine(Head(lines),
                                 [s EXCEPT !.seen = Append(@, Head(lines))]))

\* Mutation: the data handler keeps no unterminated tail back: it dispatches
\* every piece of the split, the last one included.
OnDataNoPop(s, data) ==
    LET lines == Split(s.output \o data, "\n")
    IN  ProcessLines(lines, [s EXCEPT !.output = s.output \o data])

\* stockfish.stdout?.on('data', (data) => { ... })
OnData(s, data) ==
    LET lines == Split(s.output \o data, "\n")
        rest  == lines[Len(lines)]
    IN  ProcessLines(SubSeq(lines, 1, Len(lines) - 1),
                     [s EXCEPT !.output = rest])

\* Mutation: the 'error' handler reports the error but leaves the stream open.
OnProcessErrorNoClose(s, message) ==
    Enqueue(ClearTimeout(s),
            ErrorSnapshot("Stockfish process error: " \o message))

\* Mutation: the 'error' handler reports the error and closes the stream but
\* leaves the timeout timer running.
OnProcessErrorNoClear(s, message) ==
    Close(Enqueue(s, ErrorSnapshot("Stockfish process error: " \o message)))

\* stockfish.on('error', (error) => { ... })
OnProcessError(s, message) ==
    Close(Enqueue(ClearTimeout(s),
                  ErrorSnapshot("Stockfish process error: " \o message)))

\* Mutation: the 'close' handler reports every exit that comes before a
\* bestmove line, a clean one included.
OnCloseAnyCode(s, code) ==
    LET s1 == ClearTimeout(s)
    IN  IF ~s1.finished
        THEN Close(Enqueue(s1, ErrorSnapshot("Stockfish exited with code "
                                             \o CodeText(code))))
        ELSE s1

\* stockfish.on('close', (code) => { ... })
OnClose(s, code) ==
    LET s1 == ClearTimeout(s)
    IN  IF ~s1.finished /\ code # CodeOf(0) /\ code # CodeNull
        THEN Close(Enqueue(s1, ErrorSnapshot("Stockfish exited with code "
                                             \o CodeText(code))))
        ELSE s1

\* stockfish.onmessage = (event) => { const line = event.data; ... }
OnMessage(s, line) == HandleLine(line, s)

\* stockfish.onerror = (error) => { ... }
OnWorkerError(s, message) ==
    Terminate(Close(Enqueue(ClearTimeout(s),
                            ErrorSnapshot("Stockfish error: " \o message))),
              "onerror")

\* Mutation: the catch around the writes leaves the timeout timer running.
CatchWriteNoClear(s) ==
    Close(Enqueue(Terminate(s, "catch"), ErrorSnapshot(CommunicateMessage)))

\* catch (error) { ... } around the four command writes
CatchWrite(s) ==
    Close(Enqueue(Terminate(ClearTimeout(s), "catch"),
                  ErrorSnapshot(CommunicateMessage)))

\* Mutation: the catch around the start reports the failure but leaves the
\* stream open.
CatchStartNoClose(s, failure) ==
    [Enqueue(s, ErrorSnapshot("Failed to start Stockfish: " \o failure))
       EXCEPT !.pc = "Returned"]

\* catch (error) { ... } around spawn / initStockfish, and the return after it
CatchStart(s, failure) ==
    [Close(Enqueue(s, ErrorSnapshot("Failed to start Stockfish: " \o failure)))
       EXCEPT !.pc = "Returned"]

\* Mutation: 'isready' is written before 'uci'.
CommandIsreadyFirst(k, fen, depth, nl) ==
    CASE k = 1 -> "isready" \o nl
      [] k = 2 -> "uci" \o nl
      [] k = 3 -> "position fen " \o fen \o nl
      [] k = 4 -> "go depth " \o ToString(depth) \o nl

\* The k-th command of the fixed sequence; nl is the line end the process
\* route appends and the worker route does not.
Command(k, fen, depth, nl) ==
    CASE k = 1 -> "uci" \o nl
      [] k = 2 -> "isready" \o nl
      [] k = 3 -> "position fen " \o fen \o nl
      [] k = 4 -> "go depth " \o ToString(depth) \o nl

(***************************************************************************)
(* Channels: spawned processes and workers.                                *)
(*   created     spawn / new Worker has returned it                        *)
(*   terminated  kill('SIGTERM') / terminate() was called on it            *)
(*   exited      the process has emitted 'close'                           *)
(*   code        the exit code its 'close' event carried                   *)
(*   onmessage   the session whose data/message handler is installed (0:   *)
(*               none, -i: the ready-resolver of session i's initStockfish)*)
(*   onerror, onclose   the session whose handler is installed (0: none)   *)
(*   received    what was written to it, and by which session              *)
(***************************************************************************)
Channels == 1..Cardinality(Sessions)

NoChannel ==
    [created |-> FALSE, terminated |-> FALSE, exited |-> FALSE,
     code |-> CodeNull,
     onmessage |-> 0, onerror |-> 0, onclose |-> 0, received |-> <<>>]

FreshChannel == Min({c \in Channels : ~chan[c].created})

\* The calls to kill / terminate a handler made, applied to its channel.
AfterHandler(before, after) ==
    IF after.kills # before.kills
    THEN [chan EXCEPT ![before.ch].terminated = TRUE]
    ELSE chan

\* JavaScript runs a call to completion: while some call is between its
\* channel acquisition and its return, no event and no other call runs.
SyncPcs == {"Spawned", "Armed", "Wired"}
Quiet == \A j \in Sessions : sess[j].pc \notin SyncPcs

\* The observation record is unused while requests are served.
NoProbe == [kind |-> "none"]

(***************************************************************************)
(* Initial state: no request has arrived yet.                              *)
(***************************************************************************)
\* let stockfishInstance: Worker | null = null  (0 stands for null)
Init ==
    /\ route \in {"process", "worker"}
    /\ probe = NoProbe
    /\ sess = [i \in Sessions |-> IdleSession]
    /\ chan = [c \in Channels |-> NoChannel]
    /\ stockfishInstance = 0
    /\ events = 0

(***************************************************************************)
(* The call evaluatePositionStream(fen, depth, timeLimit, controller).     *)
(***************************************************************************)
\* Process route: stockfish = spawn(...) inside try/catch, then the closure
\* variables.
Spawn(i) ==
    /\ route = "process"
    /\ i = Min(Sessions)
    /\ sess[i].pc = "Idle"
    /\ \E body \in Requests :
         \/ /\ sess' = [sess EXCEPT ![i] =
                           Declare(@, body.fen, body.depth, FreshChannel)]
            /\ chan' = [chan EXCEPT ![FreshChannel].created = TRUE]
         \/ /\ \E failure \in StartFailures :
                 sess' = [sess EXCEPT ![i] =
                            CatchStart([@ EXCEPT !.fen = body.fen,
                                                 !.depth = body.depth],
                                       failure)]
            /\ chan' = chan
    /\ UNCHANGED <<probe, route, stockfishInstance, events>>

\* Worker route: stockfish = await initStockfish(), up to its first await:
\* "if (stockfishInstance) return stockfishInstance", else the fetch starts.
\* Sessions are numbered in the order their requests arrive.
InitStockfishCall(i) ==
    /\ route = "worker"
    /\ sess[i].pc = "Idle"
    /\ \A j \in Sessions : j < i => sess[j].pc # "Idle"
    /\ Quiet
    /\ \E body \in Requests :
         sess' = [sess EXCEPT ![i] =
                    IF stockfishInstance # 0
                    THEN Declare(@, body.fen, body.depth, stockfishInstance)
                    ELSE [@ EXCEPT !.pc = "Fetching", !.fen = body.fen,
                                   !.depth = body.depth]]
    /\ UNCHANGED <<probe, route, chan, stockfishInstance, events>>

\* initStockfish after the fetch: a rejected fetch or a throwing
\* "new Worker" fails the start; otherwise the worker is created, its
\* onmessage resolves the ready promise and 'init' is posted to it.
InitStockfishWorker(i) ==
    /\ route = "worker"
    /\ sess[i].pc = "Fetching"
    /\ Quiet
    /\ \/ /\ sess' = [sess EXCEPT ![i] = [@ EXCEPT !.pc = "AwaitReady",
                                                   !.ch = FreshChannel]]
          /\ chan' = [chan EXCEPT ![FreshChannel] =
                        [@ EXCEPT !.created = TRUE, !.onmessage = 0 - i,
                                  !.received = Append(@, [from |-> i,
                                                          text |-> "init"])]]
       \/ /\ \E failure \in StartFailures :
               sess' = [sess EXCEPT ![i] = CatchStart(@, failure)]
          /\ chan' = chan
    /\ UNCHANGED <<probe, route, stockfishInstance, events>>

\* initStockfish after the ready promise: stockfishInstance = worker; return
\* worker; and the closure variables of the caller.
InitStockfishReady(i) ==
    /\ route = "worker"
    /\ sess[i].pc = "AwaitReady"
    /\ Quiet
    /\ chan[sess[i].ch].onmessage = 0 - i
    /\ ~chan[sess[i].ch].terminated
    /\ stockfishInstance' = sess[i].ch
    /\ sess' = [sess EXCEPT ![i] = Declare(@, @.fen, @.depth, @.ch)]
    /\ UNCHANGED <<probe, route, chan, events>>

\* const timeout = setTimeout(..., timeLimit)
ArmTimer(i) ==
    /\ sess[i].pc = "Spawned"
    /\ sess' = [sess EXCEPT ![i] = [@ EXCEPT !.pc = "Armed", !.timer = "Armed"]]
    /\ UNCHANGED <<probe, route, chan, stockfishInstance, events>>

\* stdout.on('data'), on('error'), on('close')  /  onmessage =, onerror =
InstallHandlers(i) ==
    /\ sess[i].pc = "Armed"
    /\ sess' = [sess EXCEPT ![i].pc = "Wired"]
    /\ chan' = [chan EXCEPT ![sess[i].ch] =
                  [@ EXCEPT !.onmessage = i, !.onerror = i,
                            !.onclose = IF route = "process" THEN i ELSE 0]]
    /\ UNCHANGED <<probe, route, stockfishInstance, events>>

\* try { write uci; write isready; write position; write go } catch { ... }
\* one write per step; a write either goes through or raises into the catch,
\* after which the call returns.
SendCommand(i) ==
    /\ sess[i].pc = "Wired"
    /\ LET s == sess[i]
           k == Len(s.sent) + 1
           text == Command(k, s.fen, s.depth,
                           IF route = "process" THEN "\n" ELSE "")
       IN  \/ /\ sess' = [sess EXCEPT ![i] =
                            [@ EXCEPT !.sent = Append(@, text),
                                      !.pc = IF k = 4 THEN "Running" ELSE @]]
              /\ chan' = [chan EXCEPT ![s.ch].received =
                            Append(@, [from |-> i, text |-> text])]
           \/ LET after == CatchWrite(s)
              IN  /\ sess' = [sess EXCEPT ![i] =
                                [EndHandler(after) EXCEPT !.pc = "Running"]]
                  /\ chan' = AfterHandler(s, after)
    /\ UNCHANGED <<probe, route, stockfishInstance, events>>

(***************************************************************************)
(* Events delivered to a session whose call has returned.                  *)
(***************************************************************************)
\* The timeout timer fires.
TimerFires(i) ==
    /\ sess[i].timer = "Armed"
    /\ Quiet
    /\ LET s == [sess[i] EXCEPT !.timer = "Fired"]
           after == TimeoutCallback(s)
       IN  /\ sess' = [sess EXCEPT ![i] = EndHandler(after)]
           /\ chan' = AfterHandler(s, after)
    /\ UNCHANGED <<probe, route, stockfishInstance, events>>

\* The process writes a chunk to its stdout.
StdoutData(c) ==
    /\ route = "process"
    /\ Quiet
    /\ events < MaxEvents
    /\ chan[c].created /\ ~chan[c].exited /\ chan[c].onmessage > 0
    /\ \E data \in Chunks :
         LET s == sess[chan[c].onmessage]
             after == OnData(s, data)
         IN  /\ sess' = [sess EXCEPT ![chan[c].onmessage] = EndHandler(after)]
             /\ chan' = AfterHandler(s, after)
    /\ events' = events + 1
    /\ UNCHANGED <<probe, route, stockfishInstance>>

\* The process emits 'error'.
ProcessError(c) ==
    /\ route = "process"
    /\ Quiet
    /\ events < MaxEvents
    /\ chan[c].created /\ ~chan[c].exited /\ chan[c].onerror > 0
    /\ \E message \in ErrorMessages :
         sess' = [sess EXCEPT ![chan[c].onerror] =
                    EndHandler(OnProcessError(@, message))]
    /\ events' = events + 1
    /\ UNCHANGED <<probe, route, chan, stockfishInstance>>

\* The process emits 'close' (once, after its streams have ended).
ProcessClose(c) ==
    /\ route = "process"
    /\ Quiet
    /\ chan[c].created /\ ~chan[c].exited /\ chan[c].onclose > 0
    /\ \E code \in ExitCodes :
         /\ sess' = [sess EXCEPT ![chan[c].onclose] =
                        EndHandler(OnClose(@, code))]
         /\ chan' = [chan EXCEPT ![c].exited = TRUE, ![c].code = code]
    /\ UNCHANGED <<probe, route, stockfishInstance, events>>

\* A live worker posts a line; the handler currently in onmessage runs.
WorkerMessage(c) ==
    /\ route = "worker"
    /\ Quiet
    /\ events < MaxMessages
    /\ chan[c].created /\ ~chan[c].terminated /\ chan[c].onmessage > 0
    /\ \E line \in Lines :
         LET s == sess[chan[c].onmessage]
             after == OnMessage(s, line)
         IN  /\ sess' = [sess EXCEPT ![chan[c].onmessage] = EndHandler(after)]
             /\ chan' = AfterHandler(s, after)
    /\ events' = events + 1
    /\ UNCHANGED <<probe, route, stockfishInstance>>

\* A live worker raises an error event; the handler in onerror runs.
WorkerError(c) ==
    /\ route = "worker"
    /\ Quiet
    /\ events < MaxMessages
    /\ chan[c].created /\ ~chan[c].terminated /\ chan[c].onerror > 0
    /\ \E message \in ErrorMessages :
         LET s == sess[chan[c].onerror]
             after == OnWorkerError(s, message)
         IN  /\ sess' = [sess EXCEPT ![chan[c].onerror] = EndHandler(after)]
             /\ chan' = AfterHandler(s, after)
    /\ events' = events + 1
    /\ UNCHANGED <<probe, route, stockfishInstance>>

Next ==
    \/ \E i \in Sessions : Spawn(i)
    \/ \E i \in Sessions : InitStockfishCall(i)
    \/ \E i \in Sessions : InitStockfishWorker(i)
    \/ \E i \in Sessions : InitStockfishReady(i)
    \/ \E i \in Sessions : ArmTimer(i)
    \/ \E i \in Sessions : InstallHandlers(i)
    \/ \E i \in Sessions : SendCommand(i)
    \/ \E i \in Sessions : TimerFires(i)
    \/ \E c \in Channels : StdoutData(c)
    \/ \E c \in Channels : ProcessError(c)
    \/ \E c \in Channels : ProcessClose(c)
    \/ \E c \in Channels : WorkerMessage(c)
    \/ \E c \in Channels : WorkerError(c)

Spec == Init /\ [][Next]_vars

\* The timeout callback running although clearTimeout was called before it:
\* the race the callback's "if (!finished)" guard is written for.
LateTimerFires(i) ==
    /\ sess[i].timer = "Cleared"
    /\ Quiet
    /\ LET s == [sess[i] EXCEPT !.timer = "Fired"]
           after == TimeoutCallback(s)
       IN  /\ sess' = [sess EXCEPT ![i] = EndHandler(after)]
           /\ chan' = AfterHandler(s, after)
    /\ UNCHANGED <<probe, route, stockfishInstance, events>>

NextLateTimer ==
    \/ Next
    \/ \E i \in Sessions : LateTimerFires(i)

SpecLateTimer == Init /\ [][NextLateTimer]_vars

(***************************************************************************)
(* Line reassembly under every chunking.  One process-route session is     *)
(* served while the process writes a fixed text to its stdout, cut into    *)
(* chunks at arbitrary places.  probe records                              *)
(*   text     the part of the text the process has not written yet         *)
(*   fed      the part delivered to the 'data' handler so far              *)
(*   handled  the lines the handler's loop handed to the dispatch so far   *)
(*   inside   some chunk delivered so far ended inside a line              *)
(***************************************************************************)
ExampleText == "info depth 5 nodes 10\nbestmove e2e4\n"

Texts ==
    {ExampleText,
     "bestmove a2a3\nreadyok\n",
     "info depth 1\n\ninfo dep"}

InitReassembly ==
    /\ route = "process"
    /\ probe \in {[kind |-> "reassembly", text |-> text, fed |-> "",
                   handled |-> <<>>, inside |-> FALSE] : text \in Texts}
    /\ sess = [i \in Sessions |-> IdleSession]
    /\ chan = [c \in Channels |-> NoChannel]
    /\ stockfishInstance = 0
    /\ events = 0

\* The process writes the next n characters of its text as one chunk.
StdoutCut(c) ==
    /\ route = "process"
    /\ Quiet
    /\ chan[c].created /\ ~chan[c].exited /\ chan[c].onmessage > 0
    /\ \E n \in 1..Len(probe.text) :
         LET data == SubSeq(probe.text, 1, n)
             s == sess[chan[c].onmessage]
             after == OnData(s, data)
         IN  /\ sess' = [sess EXCEPT ![chan[c].onmessage] = EndHandler(after)]
             /\ chan' = AfterHandler(s, after)
             /\ probe' = [probe EXCEPT
                            !.text = SubSeq(@, n + 1, Len(@)),
                            !.fed = @ \o data,
                            !.handled = @ \o after.seen,
                            !.inside = @ \/ Char(data, n) # "\n"]
    /\ UNCHANGED <<route, stockfishInstance, events>>

NextReassembly ==
    \/ \E i \in Sessions : Spawn(i)
    \/ \E i \in Sessions : ArmTimer(i)
    \/ \E i \in Sessions : InstallHandlers(i)
    \/ \E i \in Sessions : SendCommand(i)
    \/ \E i \in Sessions : TimerFires(i)
    \/ \E c \in Channels : StdoutCut(c)
    \/ \E c \in Channels : ProcessClose(c)

SpecReassembly == InitReassembly /\ [][NextReassembly]_vars

(***************************************************************************)
(* Single lines.  One session of the worker route, its commands sent and   *)
(* its stream open, is handed up to MaxProbeLines engine lines, one per    *)
(* message.  probe records                                                 *)
(*   s        the session                                                  *)
(*   line     the last line handed to its onmessage handler                *)
(*   before   the session as it was before that line                       *)
(*   n        the number of lines handed over so far                       *)
(*   lines    those lines, in order                                        *)
(***************************************************************************)
MaxProbeLines == 3

LineMultiPv ==
    "info depth 1 seldepth 2 multipv 1 score cp 35 nodes 7 nps 2333 time 3 pv e2e4 e7e5"
LineCpNegative == "info depth 2 score cp -12 nodes 1 time 2000 pv d2d4"
LineMateLongPv ==
    "info depth 3 score mate 3 nodes 5 time 3 pv e2e4 e7e5 g1f3 b8c6 f1b5 a7a6 d2d3"
LineMateNegative == "info depth 4 score mate -2 nodes 2000000 time 4000"
LineMultiPvNoPv == "info depth 5 seldepth 6 multipv 1 score cp 10"
LineSelDepthOnly == "info seldepth 3 score cp 10 nodes 5"
LineNoDepth == "info score cp 77 nodes 9"

ProbeLines ==
    {LineMultiPv, LineCpNegative, LineMateLongPv, LineMateNegative,
     LineMultiPvNoPv, LineSelDepthOnly, LineNoDepth, LineBest}

InitParse ==
    /\ route = "worker"
    /\ probe \in {[kind |-> "parse",
                   s |-> [Declare(IdleSession, body.fen, body.depth, 1)
                            EXCEPT !.pc = "Running", !.timer = "Armed"],
                   line |-> "", before |-> IdleSession, n |-> 0,
                   lines |-> <<>>]
                  : body \in Requests}
    /\ sess = [i \in Sessions |-> IdleSession]
    /\ chan = [c \in Channels |-> NoChannel]
    /\ stockfishInstance = 0
    /\ events = 0

\* The worker posts a line.
ProbeLine ==
    /\ probe.n < MaxProbeLines
    /\ \E line \in ProbeLines :
         probe' = [probe EXCEPT !.s = EndHandler(OnMessage(@, line)),
                                !.line = line,
                                !.before = probe.s,
                                !.n = @ + 1,
                                !.lines = Append(@, line)]
    /\ UNCHANGED <<route, sess, chan, stockfishInstance, events>>

NextParse == ProbeLine

SpecParse == InitParse /\ [][NextParse]_vars

(***************************************************************************)
(* The promise-based evaluatePosition of the spawned-process route         *)
(* (src/unnamed/part_001, lines 41-132), after its executor has spawned    *)
(* the process, armed the timer, installed the handlers and written the    *)
(* four commands.  The process writes a fixed text to its stdout, cut into *)
(* chunks at arbitrary places.  probe records                              *)
(*   text      the part of the text the process has not written yet        *)
(*   output    the closure's output buffer                                 *)
(*   result    the closure's result object (it has no fen: fen is "")      *)
(*   timer     Armed, Cleared or Fired                                     *)
(*   killed    stockfish.kill was called                                   *)
(*   exited    the process has emitted 'close'                             *)
(*   settled   the promise: pending, resolved or rejected                  *)
(*   value     what the promise resolved with                              *)
(*   partial   history: a piece that was not yet a complete line was       *)
(*             handed to the dispatch                                      *)
(*   again     history: a complete line was handed to the dispatch a       *)
(*             second time                                                 *)
(*   seen, ret within one handler: the pieces its loop handed to the       *)
(*             dispatch / the handler has returned                         *)
(***************************************************************************)
PromiseTexts ==
    {"info depth 12 nodes 10\nbestmove e2e4\n",
     "info depth 3\nreadyok\ninfo depth 12 score cp 5\nbestmove e2e4\n"}

\* score cp of the route's own parseInfoLine: no perspective correction.
parseScoreCpPlain(line, result) ==
    LET match == MatchSigned(line, "score cp")
    IN  IF Includes(line, "score cp") /\ match # ""
        THEN [result EXCEPT !.evaluation = EvalNumber(parseInt(match))]
        ELSE result

\* function parseInfoLine(line, result) of the promise-based route.
parseInfoLinePlain(line, result) ==
    parsePv(line,
      parseScoreMate(line,
        parseScoreCpPlain(line,
          parseTime(line,
            parseNodes(line,
              parseDepth(line, result))))))

\* The body of "for (const line of lines)" for one piece of the split.
PromiseHandleLine(line, p) ==
    LET p1 == IF StartsWith(line, "info") /\ Includes(line, "depth")
              THEN [p EXCEPT !.result = parseInfoLinePlain(line, @)]
              ELSE p
        match == MatchWord(line, "bestmove")
        r1 == IF match # "" THEN [p1.result EXCEPT !.bestMove = match]
              ELSE p1.result
        r2 == IF r1.time > 0
              THEN [r1 EXCEPT !.nps = NpsOf(RoundDiv(r1.nodes * 1000, r1.time))]
              ELSE r1
    IN  IF StartsWith(line, "bestmove")
        THEN [p1 EXCEPT !.result = r2,
                        !.timer = IF @ = "Armed" THEN "Cleared" ELSE @,
                        !.killed = TRUE,
                        !.settled = IF @ = "pending" THEN "resolved" ELSE @,
                        !.value = IF p1.settled = "pending" THEN r2 ELSE @,
                        !.ret = TRUE]
        ELSE p1

RECURSIVE PromiseProcessLines(_, _)
PromiseProcessLines(lines, p) ==
    IF lines = <<>> \/ p.ret THEN p
    ELSE PromiseProcessLines(Tail(lines),
             PromiseHandleLine(Head(lines),
                               [p EXCEPT !.seen = Append(@, Head(lines))]))

\* stockfish.stdout?.on('data', ...) of evaluatePosition: the buffer is never
\* cut back, and every piece of its split is dispatched.
PromiseOnData(p, data) ==
    LET lines == Split(p.output \o data, "\n")
    IN  PromiseProcessLines(lines, [p EXCEPT !.output = p.output \o data])

InitPromise ==
    /\ route = "process"
    /\ probe \in {[kind |-> "promise", text |-> text, output |-> "",
                   result |-> [NewResult("") EXCEPT !.depth = body.depth],
                   timer |-> "Armed", killed |-> FALSE, exited |-> FALSE,
                   settled |-> "pending", value |-> NewResult(""),
                   partial |-> FALSE, again |-> FALSE,
                   seen |-> <<>>, ret |-> FALSE]
                  : text \in PromiseTexts, body \in Requests}
    /\ sess = [i \in Sessions |-> IdleSession]
    /\ chan = [c \in Channels |-> NoChannel]
    /\ stockfishInstance = 0
    /\ events = 0

\* The process writes the next n characters of its text as one chunk.
PromiseStdoutCut ==
    /\ ~probe.exited
    /\ \E n \in 1..Len(probe.text) :
         LET data == SubSeq(probe.text, 1, n)
             after == PromiseOnData(probe, data)
             pieces == Split(probe.output \o data, "\n")
             complete == Len(Split(probe.output, "\n")) - 1
         IN  probe' = [after EXCEPT
                         !.text = SubSeq(@, n + 1, Len(@)),
                         !.partial = @ \/ (/\ Len(after.seen) = Len(pieces)
                                           /\ pieces[Len(pieces)] # ""),
                         !.again = @ \/ (complete > 0 /\ after.seen # <<>>),
                         !.seen = <<>>, !.ret = FALSE]
    /\ UNCHANGED <<route, sess, chan, stockfishInstance, events>>

\* setTimeout(() => { stockfish.kill('SIGTERM'); reject(...) }, timeLimit)
PromiseTimerFires ==
    /\ probe.timer = "Armed"
    /\ probe' = [probe EXCEPT !.timer = "Fired", !.killed = TRUE,
                              !.settled = IF @ = "pending" THEN "rejected"
                                          ELSE @]
    /\ UNCHANGED <<route, sess, chan, stockfishInstance, events>>

\* stockfish.on('close', (code) => { ... }) of evaluatePosition
PromiseClose ==
    /\ ~probe.exited
    /\ \E code \in ExitCodes :
         probe' = [probe EXCEPT
                     !.exited = TRUE,
                     !.timer = IF @ = "Armed" THEN "Cleared" ELSE @,
                     !.settled = IF @ = "pending" /\ code # CodeOf(0)
                                    /\ code # CodeNull
                                 THEN "rejected" ELSE @]
    /\ UNCHANGED <<route, sess, chan, stockfishInstance, events>>

NextPromise == PromiseStdoutCut \/ PromiseTimerFires \/ PromiseClose

SpecPromise == InitPromise /\ [][NextPromise]_vars

(***************************************************************************)
(* The useStockfish hook (src/lib/useStockfish.ts): evaluatePosition calls *)
(* on the hook's one engine worker.  The engine serves the 'go' commands   *)
(* in the order it received them, posting the lines of one search after    *)
(* the other.  probe records                                               *)
(*   calls      per call: idle, pending or resolved; its request; its      *)
(*              evaluation object; and the search whose bestmove line      *)
(*              resolved it (0: none)                                      *)
(*   listeners  the calls whose handleMessage is registered on the worker  *)
(*   queue      the searches the engine still has to post lines of, each   *)
(*              with the call that asked for it and its remaining lines    *)
(***************************************************************************)
HookCalls == {1, 2, 3}

\* What the engine posts for a request: the answer to isready, one info
\* line and the bestmove line.
Script(body) ==
    IF SideToMove(body.fen) = "w"
    THEN <<"readyok", LineMultiPv, LineBest>>
    ELSE <<"readyok",
           "info depth 1 seldepth 1 multipv 1 score mate -2 nodes 9 nps 3000 time 3 pv d7d5",
           "bestmove d7d5">>

\* let evaluation = { score: null, bestMove: '', pv: [], depth: 0, ... }
HookEvaluation ==
    [score |-> EvalNull, bestMove |-> "", pv |-> <<>>, depth |-> 0,
     nodes |-> 0, time |-> 0, nps |-> 0]

\* line.split(' pv ')[1]: the text between the first and the second ' pv '.
AfterPv(line) ==
    LET i == IndexOf(line, " pv ")
        rest == SubSeq(line, i + 4, Len(line))
        j == IndexOf(rest, " pv ")
    IN  IF j = 0 THEN rest ELSE SubSeq(rest, 1, j - 1)

\* handleMessage, its effect on the evaluation object.
handleMessage(line, evaluation) ==
    LET cp == MatchSigned(line, "cp")
        mate == MatchSigned(line, "mate")
        e1 == IF Includes(line, "bestmove") THEN evaluation
              ELSE IF Includes(line, "cp ")
                   THEN (IF cp # ""
                         THEN [evaluation EXCEPT !.score = EvalNumber(parseInt(cp))]
                         ELSE evaluation)
              ELSE IF Includes(line, "mate ")
                   THEN (IF mate # ""
                         THEN [evaluation EXCEPT !.score = EvalString("M" \o mate)]
                         ELSE evaluation)
              ELSE evaluation
        e2 == IF Includes(line, "pv ")
              THEN [e1 EXCEPT !.pv = Split(AfterPv(line), " "),
                              !.bestMove = Split(AfterPv(line), " ")[1]]
              ELSE e1
        e3 == IF MatchDigits(line, "depth") # ""
              THEN [e2 EXCEPT !.depth = parseInt(MatchDigits(line, "depth"))]
              ELSE e2
        e4 == IF MatchDigits(line, "nodes") # ""
              THEN [e3 EXCEPT !.nodes = parseInt(MatchDigits(line, "nodes"))]
              ELSE e3
        e5 == IF MatchDigits(line, "time") # ""
              THEN [e4 EXCEPT !.time = parseInt(MatchDigits(line, "time"))]
              ELSE e4
    IN  IF MatchDigits(line, "nps") # ""
        THEN [e5 EXCEPT !.nps = parseInt(MatchDigits(line, "nps"))]
        ELSE e5

InitHook ==
    /\ route = "worker"
    /\ probe = [kind |-> "hook",
                calls |-> [i \in HookCalls |->
                             [state |-> "idle", body |-> CHOOSE b \in Requests : TRUE,
                              evaluation |-> HookEvaluation, on |-> 0]],
                listeners |-> {},
                queue |-> <<>>]
    /\ sess = [i \in Sessions |-> IdleSession]
    /\ chan = [c \in Channels |-> NoChannel]
    /\ stockfishInstance = 0
    /\ events = 0

\* evaluatePosition(fen, depth) with the engine initialised: the executor
\* registers handleMessage and posts the four commands.  Calls are numbered
\* in the order they are made.
HookEvaluatePosition(i) ==
    /\ probe.calls[i].state = "idle"
    /\ \A j \in HookCalls : j < i => probe.calls[j].state # "idle"
    /\ \E body \in Requests :
         probe' = [probe EXCEPT
                     !.calls[i] = [@ EXCEPT !.state = "pending", !.body = body],
                     !.listeners = @ \cup {i},
                     !.queue = Append(@, [id |-> i, lines |-> Script(body)])]
    /\ UNCHANGED <<route, sess, chan, stockfishInstance, events>>

\* The worker posts the next line of the search it is serving; every
\* registered handleMessage runs on it.
HookMessage ==
    /\ probe.queue # <<>>
    /\ LET search == Head(probe.queue)
           line == Head(search.lines)
           best == Includes(line, "bestmove")
       IN  probe' = [probe EXCEPT
               !.calls = [i \in HookCalls |->
                    IF i \notin probe.listeners THEN @[i]
                    ELSE [@[i] EXCEPT
                            !.evaluation = handleMessage(line, @),
                            !.state = IF best THEN "resolved" ELSE @,
                            !.on = IF best THEN search.id ELSE @]],
               !.listeners = IF best THEN {} ELSE @,
               !.queue = IF Len(search.lines) = 1 THEN Tail(@)
                         ELSE <<[search EXCEPT !.lines = Tail(@)]>> \o Tail(@)]
    /\ UNCHANGED <<route, sess, chan, stockfishInstance, events>>

NextHook ==
    \/ \E i \in HookCalls : HookEvaluatePosition(i)
    \/ HookMessage

SpecHook == InitHook /\ [][NextHook]_vars

(***************************************************************************)
(* The life of the hook's engine worker (useStockfish.ts:19-55), with the  *)
(* calls of evaluatePosition made while the component is mounted.  probe   *)
(* records, besides the fields of SpecHook,                                *)
(*   mounted    the component using the hook is mounted                    *)
(*   loaded     window.Stockfish is defined when the 100 ms wait ends      *)
(*   init       initializeEngine: waiting (in its await), done or failed   *)
(*   worker     the worker object: none, alive or terminated               *)
(*   engine     the hook's state: 0 for null, 1 for the worker             *)
(*   closure    the value of `engine` in the scope the effect's functions  *)
(*              were created in.  The effect has the dependency list []    *)
(*              and so runs once, after the first render, whose engine is  *)
(*              null; its cleanup reads that same scope.                   *)
(***************************************************************************)
InitHookLife ==
    /\ route = "worker"
    /\ \E loaded \in BOOLEAN :
         probe = [kind |-> "hook",
                  calls |-> [i \in HookCalls |->
                               [state |-> "idle", body |-> CHOOSE b \in Requests : TRUE,
                                evaluation |-> HookEvaluation, on |-> 0]],
                  listeners |-> {},
                  queue |-> <<>>,
                  mounted |-> TRUE,
                  loaded |-> loaded,
                  init |-> "waiting",
                  worker |-> "none",
                  engine |-> 0,
                  closure |-> 0]
    /\ sess = [i \in Sessions |-> IdleSession]
    /\ chan = [c \in Channels |-> NoChannel]
    /\ stockfishInstance = 0
    /\ events = 0

\* initializeEngine after its await: without window.Stockfish it logs and
\* returns; otherwise it creates the worker, posts uci and isready and calls
\* setEngine(worker), which changes the state of a mounted component only.
InitializeEngine ==
    /\ probe.init = "waiting"
    /\ probe' = IF ~probe.loaded
                THEN [probe EXCEPT !.init = "failed"]
                ELSE [probe EXCEPT !.init = "done",
                                   !.worker = "alive",
                                   !.engine = IF probe.mounted THEN 1 ELSE @]
    /\ UNCHANGED <<route, sess, chan, stockfishInstance, events>>

\* The effect's cleanup at unmount: if (engine) engine.terminate(), with the
\* engine of the scope the effect was created in.
HookCleanup ==
    /\ probe.mounted
    /\ probe' = [probe EXCEPT
                   !.mounted = FALSE,
                   !.worker = IF probe.closure # 0 THEN "terminated" ELSE @]
    /\ UNCHANGED <<route, sess, chan, stockfishInstance, events>>

NextHookLife ==
    \/ InitializeEngine
    \/ HookCleanup
    \/ \E i \in HookCalls :
         /\ probe.mounted
         /\ probe.engine # 0
         /\ HookEvaluatePosition(i)
    \/ /\ probe.worker = "alive"
       /\ HookMessage

SpecHookLife == InitHookLife /\ [][NextHookLife]_vars

(***************************************************************************)
(* The StockfishEval component (src/app/chess/StockfishEval.tsx) as the    *)
(* client of the streaming route.  probe records                           *)
(*   props      the fen and depth the component was last rendered with     *)
(*              (NoProps before the first render)                          *)
(*   made       the bodies of the requests made so far, in order           *)
(*   inflight   the positions in made of the requests not yet answered     *)
(*   evaluation, loading, error   the component's three state variables    *)
(*   of         the request whose response is stored in evaluation (0:     *)
(*              none)                                                      *)
(*   lastBody   the response body handled last                             *)
(***************************************************************************)
MaxFetches == 3

NoProps == [fen |-> "", depth |-> 0]

NoEvaluation == [tag |-> "null"]

NoError == [set |-> FALSE, message |-> ""]

\* What the engine may print for one search: info lines and the bestmove
\* line, or the bestmove line alone.
EngineOutputs ==
    {<<LineMultiPv, LineBest>>,
     <<LineCpNegative, LineMateNegative, LineBest>>,
     <<LineBest>>}

\* The session after the route handled the lines in order.
RECURSIVE Fed(_, _)
Fed(s, lines) ==
    IF lines = <<>> THEN s
    ELSE Fed(EndHandler(OnMessage(s, Head(lines))), Tail(lines))

\* The response bodies the streaming route can produce for a request: the
\* objects it enqueued, each written as JSON.stringify(object) + '\n', for a
\* search that ended with bestmove, or one error object.
ResponseBodies(body) ==
    {Fed([Declare(IdleSession, body.fen, body.depth, 1)
            EXCEPT !.pc = "Running", !.timer = "Armed"], lines).out
       : lines \in EngineOutputs}
    \cup {<<ErrorSnapshot(TimeoutMessage)>>}

\* response.json(): JSON.parse of the whole body text.  The text parses
\* when it holds exactly one JSON value (white space such as the final
\* newline is allowed around it); anything else raises a SyntaxError.
JsonSyntaxError == "Unexpected non-whitespace character after JSON"

ResponseJson(text) ==
    IF Len(text) = 1
    THEN [ok |-> TRUE, data |-> text[1], message |-> ""]
    ELSE [ok |-> FALSE, data |-> NoEvaluation, message |-> JsonSyntaxError]

InitEval ==
    /\ route = "process"
    /\ probe = [kind |-> "eval", props |-> NoProps, made |-> <<>>,
                inflight |-> {}, evaluation |-> NoEvaluation,
                loading |-> FALSE, error |-> NoError, of |-> 0,
                lastBody |-> <<>>]
    /\ sess = [i \in Sessions |-> IdleSession]
    /\ chan = [c \in Channels |-> NoChannel]
    /\ stockfishInstance = 0
    /\ events = 0

\* The effect after a render with a new fen or depth: evaluatePosition(fen)
\* up to its first await.
EvalEffect ==
    /\ Len(probe.made) < MaxFetches
    /\ \E body \in Requests :
         /\ body # probe.props
         /\ probe' = [probe EXCEPT
                        !.props = body,
                        !.made = Append(@, body),
                        !.inflight = @ \cup {Len(probe.made) + 1},
                        !.loading = TRUE,
                        !.error = NoError]
    /\ UNCHANGED <<route, sess, chan, stockfishInstance, events>>

\* The response to request r has arrived: evaluatePosition from
\* response.json() to the end of its finally block.
EvalResponse(r) ==
    /\ r \in probe.inflight
    /\ \E text \in ResponseBodies(probe.made[r]) :
         LET json == ResponseJson(text)
         IN  probe' = [probe EXCEPT
                 !.inflight = @ \ {r},
                 !.evaluation = IF json.ok THEN json.data ELSE @,
                 !.of = IF json.ok THEN r ELSE @,
                 !.error = IF json.ok THEN @
                           ELSE [set |-> TRUE, message |-> json.message],
                 !.loading = FALSE,
                 !.lastBody = text]
    /\ UNCHANGED <<route, sess, chan, stockfishInstance, events>>

NextEval ==
    \/ EvalEffect
    \/ \E r \in 1..MaxFetches : EvalResponse(r)

SpecEval == InitEval /\ [][NextEval]_vars

(***************************************************************************)
(* ChessPage (src/app/chess/chessBoard.tsx).  The rules of chess belong to *)
(* the chess.js library; the model keeps of them what the component uses:  *)
(* a game is the sequence of moves made, the sides move in turn, a move is *)
(* legal or chessGame.move raises, and a game can be over.  A position     *)
(* (the fen of a game) is named by the moves that lead to it.  probe       *)
(* records                                                                 *)
(*   game       chessGameRef.current, the one mutable game object          *)
(*   fens, step, pgnstring   the component's state (step counts from 0)    *)
(*   timers     the pending setTimeout(makeRandomMove, 500) calls          *)
(*   keyLen     fens.length in the scope of the registered onKey listener  *)
(*   op, before the last operation and the fens, step and timers it found  *)
(***************************************************************************)
MaxTimers == 2

\* Plies after which the game is over (a short mate).
GameOverAt == 3

WhiteMoves == {"e4", "d4"}

BlackMoves == {"e5", "d5"}

\* chessGame.isGameOver()
IsGameOver(game) == Len(game) >= GameOverAt

\* chessGame.moves()
LegalMoves(game) ==
    IF IsGameOver(game) THEN {}
    ELSE IF Len(game) % 2 = 0 THEN WhiteMoves ELSE BlackMoves

\* chessGame.fen()
Fen(game) == game

\* The texts the PGN box can hold: empty, blank, a game, a longer game and
\* a text that is no PGN.
PgnTexts == {"", " ", "1. e4 e5", "1. d4 d5 2. e4", "1. e4 Zz9"}

\* chessGame.loadPgn(text) followed by chessGame.history(): the moves, or
\* raised for a text that does not parse.
LoadPgn(text) ==
    IF text = "1. e4 e5" THEN [ok |-> TRUE, history |-> <<"e4", "e5">>]
    ELSE IF text = "1. d4 d5 2. e4"
         THEN [ok |-> TRUE, history |-> <<"d4", "d5", "e4">>]
    ELSE [ok |-> FALSE, history |-> <<>>]

\* pgnstring.trim()
Trim(text) == IF text = " " THEN "" ELSE text

\* historyFens: the start position and the position after each move.
HistoryFens(history) == [k \in 1..(Len(history) + 1) |-> Fen(SubSeq(history, 1, k - 1))]

\* Mutation: the key listener is never registered again (dependency list
\* [] instead of [fens.length]).
KeyEffectOnce(p) == p

\* The effect with the dependency list [fens.length]: after a render with
\* a new length the onKey listener is replaced by one of the new scope.
KeyEffect(p) == [p EXCEPT !.keyLen = Len(p.fens)]

\* The ghost record of an operation.
Did(p, op) ==
    [p EXCEPT !.op = op,
              !.before = [fens |-> p.fens, step |-> p.step, timers |-> p.timers]]

InitBoard ==
    /\ route = "process"
    /\ probe = [kind |-> "board", game |-> <<>>, fens |-> <<Fen(<<>>)>>,
                step |-> 0, pgnstring |-> "", timers |-> 0, keyLen |-> 1,
                op |-> "mount",
                before |-> [fens |-> <<Fen(<<>>)>>, step |-> 0, timers |-> 0]]
    /\ sess = [i \in Sessions |-> IdleSession]
    /\ chan = [c \in Channels |-> NoChannel]
    /\ stockfishInstance = 0
    /\ events = 0

\* The PGN box changes: setPGN, and the effect on [pgnstring].
PgnChange ==
    /\ \E text \in PgnTexts :
         /\ text # probe.pgnstring
         /\ LET loaded == LoadPgn(text)
                p == [Did(probe, "pgn") EXCEPT !.pgnstring = text]
            IN  probe' = KeyEffect(
                  IF Trim(text) = "" \/ ~loaded.ok
                  THEN [p EXCEPT !.game = <<>>, !.fens = <<Fen(<<>>)>>,
                                 !.step = 0]
                  ELSE [p EXCEPT !.game = loaded.history,
                                 !.fens = HistoryFens(loaded.history),
                                 !.step = Len(HistoryFens(loaded.history)) - 1])
    /\ UNCHANGED <<route, sess, chan, stockfishInstance, events>>

\* onKey with ArrowLeft: setStep(i => Math.max(i - 1, 0)).
ArrowLeft ==
    /\ probe' = [Did(probe, "ArrowLeft") EXCEPT
                   !.step = IF @ - 1 > 0 THEN @ - 1 ELSE 0]
    /\ UNCHANGED <<route, sess, chan, stockfishInstance, events>>

\* onKey with ArrowRight: setStep(i => Math.min(i + 1, fens.length - 1)).
ArrowRight ==
    /\ probe' = [Did(probe, "ArrowRight") EXCEPT
                   !.step = IF @ + 1 < probe.keyLen - 1 THEN @ + 1
                            ELSE probe.keyLen - 1]
    /\ UNCHANGED <<route, sess, chan, stockfishInstance, events>>

\* onPieceDrop: "" stands for a null target square, a move name for the
\* move the two squares make.
OnPieceDrop ==
    /\ probe.timers < MaxTimers
    /\ \E move \in WhiteMoves \cup BlackMoves \cup {""} :
         probe' =
           IF move = "" \/ move \notin LegalMoves(probe.game)
           THEN Did(probe, "rejected")
           ELSE KeyEffect(
                  [Did(probe, "drop") EXCEPT
                     !.game = Append(@, move),
                     !.fens = Append(@, Fen(Append(probe.game, move))),
                     !.step = @ + 1,
                     !.timers = @ + 1])
    /\ UNCHANGED <<route, sess, chan, stockfishInstance, events>>

\* makeRandomMove, 500 ms after a successful drop.
MakeRandomMove ==
    /\ probe.timers > 0
    /\ IF IsGameOver(probe.game)
       THEN probe' = [Did(probe, "reply-none") EXCEPT !.timers = @ - 1]
       ELSE \E randomMove \in LegalMoves(probe.game) :
              probe' = KeyEffect(
                [Did(probe, "reply") EXCEPT
                   !.timers = @ - 1,
                   !.game = Append(@, randomMove),
                   !.fens = Append(@, Fen(Append(probe.game, randomMove))),
                   !.step = @ + 1])
    /\ UNCHANGED <<route, sess, chan, stockfishInstance, events>>

\* ResetButton onReset.
OnReset ==
    /\ probe' = KeyEffect([Did(probe, "reset") EXCEPT
                             !.game = <<>>, !.fens = <<Fen(<<>>)>>,
                             !.step = 0])
    /\ UNCHANGED <<route, sess, chan, stockfishInstance, events>>

NextBoard ==
    \/ PgnChange
    \/ ArrowLeft
    \/ ArrowRight
    \/ OnPieceDrop
    \/ MakeRandomMove
    \/ OnReset

SpecBoard == InitBoard /\ [][NextBoard]_vars

(***************************************************************************)
(* Properties.                                                             *)
(***************************************************************************)
Out(i) == sess[i].out

ErrorPositions(out) == {k \in 1..Len(out) : IsError(out[k])}
DonePositions(out) == {k \in 1..Len(out) : IsDone(out[k])}
InfoPositions(out) == {k \in 1..Len(out) : IsInfo(out[k])}

\* C1: per session at most one error snapshot is enqueued, and nothing is
\* enqueued after it: an error snapshot is always the last element of the
\* session's output, in every reachable state.
C1_ErrorSnapshotIsFinal ==
    \A i \in Sessions : \A k \in ErrorPositions(Out(i)) : k = Len(Out(i))

\* C1 witness: an error snapshot was enqueued and a later event ran a handler
\* that tried to write to the stream again.
C1_Witness ==
    \E i \in Sessions :
        /\ ErrorPositions(Out(i)) # {}
        /\ sess[i].threw

\* C2: per session at most one 'done' snapshot is enqueued, and nothing is
\* enqueued after it: a 'done' snapshot is always the last element of the
\* session's output, in every reachable state.
C2_DoneSnapshotIsFinal ==
    \A i \in Sessions : \A k \in DonePositions(Out(i)) : k = Len(Out(i))

\* C2 witness: 'done' was enqueued and a later event (data, error or close)
\* ran a handler that tried to write to the stream again.
C2_Witness ==
    \E i \in Sessions :
        /\ DonePositions(Out(i)) # {}
        /\ sess[i].threw

\* C4: once the timer has fired (no bestmove line was handled before it), the
\* session has terminated its channel, its output ends with the timeout
\* error, that is its only error snapshot and no 'done' snapshot exists;
\* this stays so whatever events follow.
C4_TimeoutIsTheOnlyTerminalEvent ==
    \A i \in Sessions :
        sess[i].timer = "Fired" =>
            /\ "timer" \in sess[i].kills
            /\ chan[sess[i].ch].terminated
            /\ sess[i].closed
            /\ Out(i) # <<>>
            /\ Out(i)[Len(Out(i))] = ErrorSnapshot(TimeoutMessage)
            /\ ErrorPositions(Out(i)) = {Len(Out(i))}
            /\ DonePositions(Out(i)) = {}

\* C4 witness: the timer has fired and a later event ran a handler that tried
\* to write to the stream.
C4_Witness ==
    \E i \in Sessions :
        /\ sess[i].timer = "Fired"
        /\ sess[i].threw

\* C5: a session that has emitted 'done' has no timeout error in its output
\* and its channel was never terminated from the timer callback, also when
\* the callback runs after the bestmove line was handled.
C5_DoneIsImmuneToLateTimer ==
    \A i \in Sessions :
        DonePositions(Out(i)) # {} =>
            /\ "timer" \notin sess[i].kills
            /\ \A k \in 1..Len(Out(i)) : Out(i)[k] # ErrorSnapshot(TimeoutMessage)

\* C5 witness: 'done' was emitted and the timer callback has run afterwards.
C5_Witness ==
    \E i \in Sessions :
        /\ DonePositions(Out(i)) # {}
        /\ sess[i].timer = "Fired"

\* C3 (as a final result): a started session for which nothing is pending
\* any more -- its call has returned, its timer is not armed and its process
\* has closed, so no event will ever reach it -- has ended: its result
\* stream is closed (after a 'done' or an error snapshot).
C3_SessionEndsOnceNothingIsPending ==
    \A i \in Sessions :
        ( /\ sess[i].pc = "Running"
          /\ sess[i].timer # "Armed"
          /\ chan[sess[i].ch].exited )
        => sess[i].closed

\* The depths carried by the 'info' snapshots of an output, in order.
InfoDepths(out) ==
    LET infos == SelectSeq(out, IsInfo)
    IN  [k \in 1..Len(infos) |-> infos[k].depth]

\* The depths of the info lines handled while the result stream was open.
OpenDepths(parsed) ==
    LET open == SelectSeq(parsed, LAMBDA e : e.open)
    IN  [k \in 1..Len(open) |-> open[k].depth]

\* The elements of a sequence that exceed `last' and every element before
\* them.
RECURSIVE NewDepths(_, _)
NewDepths(depths, last) ==
    IF depths = <<>> THEN <<>>
    ELSE IF Head(depths) > last
         THEN <<Head(depths)>> \o NewDepths(Tail(depths), Head(depths))
         ELSE NewDepths(Tail(depths), last)

StrictlyIncreasing(seq) ==
    \A j, k \in 1..Len(seq) : j < k => seq[j] < seq[k]

\* C6 (amended): for the info lines handled while the stream is open, the
\* emitted 'info' depths are strictly increasing and are exactly the depths
\* that exceed 0 and every depth handled before them, once each, in input
\* order; a line whose depth is 0, or equals or is below the last emitted
\* depth, emits nothing.
C6_InfoDepthsAreTheNewPositiveDepths ==
    \A i \in Sessions :
        /\ StrictlyIncreasing(InfoDepths(Out(i)))
        /\ InfoDepths(Out(i)) = NewDepths(OpenDepths(sess[i].parsed), 0)

\* C6 witness: two 'info' snapshots were emitted and one more info line was
\* handled without an emission.
C6_Witness ==
    \E i \in Sessions :
        /\ Len(InfoDepths(Out(i))) >= 2
        /\ Len(OpenDepths(sess[i].parsed)) > Len(InfoDepths(Out(i)))

\* C6 (original): exactly one 'info' snapshot per distinct depth of an
\* increasing input, whatever the first depth is: every depth that exceeds
\* all depths handled before it is emitted.
C6_OneInfoPerNewDepth ==
    \A i \in Sessions :
        InfoDepths(Out(i)) = NewDepths(OpenDepths(sess[i].parsed), 0 - 1)

\* C7: result.depth never decreases within a session: no step lowers it.
C7_DepthNeverDecreases ==
    [][\A i \in Sessions : sess'[i].result.depth >= sess[i].result.depth]_vars

\* C8: the 'info' and 'done' snapshots of a session are emitted in
\* non-decreasing depth order.
C8_SnapshotsInDepthOrder ==
    \A i \in Sessions :
        \A j, k \in InfoPositions(Out(i)) \cup DonePositions(Out(i)) :
            j < k => Out(i)[j].depth <= Out(i)[k].depth

\* The four commands of the UCI sequence for session i's request, each ended
\* by a newline on the process route.
CommandSequence(i) ==
    LET nl == IF route = "process" THEN "\n" ELSE ""
    IN  <<"uci" \o nl,
          "isready" \o nl,
          "position fen " \o sess[i].fen \o nl,
          "go depth " \o ToString(sess[i].depth) \o nl>>

\* What session i has written to channel c after acquiring it.
WrittenBy(i, c) ==
    LET mine == SelectSeq(chan[c].received,
                          LAMBDA m : m.from = i /\ m.text # "init")
    IN  [k \in 1..Len(mine) |-> mine[k].text]

\* C9: what a session has sent is always a prefix of 'uci', 'isready',
\* 'position fen <fen>', 'go depth <depth>' (in order, each once, nothing
\* else), it is what its channel received from it, the first command is sent
\* only once the timer has been armed and the handlers installed, and a call
\* that returned without a failing write has sent all four.
C9_FixedCommandSequence ==
    \A i \in Sessions :
        LET s == sess[i]
        IN  /\ Len(s.sent) <= 4
            /\ s.sent = SubSeq(CommandSequence(i), 1, Len(s.sent))
            /\ s.sent # <<>> =>
                 /\ s.sent = WrittenBy(i, s.ch)
                 /\ s.timer # "None"
                 /\ s.pc \in {"Wired", "Running"}
                 /\ chan[s.ch].onmessage \in Sessions
                 /\ chan[s.ch].onerror \in Sessions
                 /\ route = "process" =>
                      /\ chan[s.ch].onmessage = i
                      /\ chan[s.ch].onerror = i
                      /\ chan[s.ch].onclose = i
            /\ (s.pc = "Running" /\ "catch" \notin s.kills) =>
                 s.sent = CommandSequence(i)

\* C9 witness: a call has returned after sending all four commands.
C9_Witness ==
    \E i \in Sessions : sess[i].pc = "Running" /\ Len(sess[i].sent) = 4

\* A session that has installed its handlers on its channel and has not
\* ended yet.
Live(i) == sess[i].pc \in {"Wired", "Running"} /\ ~sess[i].closed

\* C10: no channel is in use by two live sessions at once (each of them has
\* installed handlers on it and writes its commands to it).
C10_ExclusiveChannel ==
    \A a, b \in Sessions :
        (a # b /\ Live(a) /\ Live(b)) => sess[a].ch # sess[b].ch


\* C11: a session never receives a channel that was already terminated: at
\* the moment evaluatePositionStream holds its channel (spawn returned, or
\* initStockfish resolved) and before it did anything else, terminate()/kill
\* has not been called on that channel.
C11_NewSessionGetsLiveChannel ==
    \A i \in Sessions :
        sess[i].pc = "Spawned" => ~chan[sess[i].ch].terminated

\* The lines of a text that are terminated by a newline, in order.
RECURSIVE TerminatedLines(_)
TerminatedLines(text) ==
    LET i == IndexOf(text, "\n")
    IN  IF i = 0 THEN <<>>
        ELSE <<SubSeq(text, 1, i - 1)>>
             \o TerminatedLines(SubSeq(text, i + 1, Len(text)))

\* No bestmove line before the last of the lines.
NoEarlierBestmove(lines) ==
    \A k \in 1..(Len(lines) - 1) : ~StartsWith(lines[k], "bestmove")

Tokens(line) == Split(line, " ")

\* The token that follows the first consecutive pair of tokens a b; "" when
\* the pair does not occur or nothing follows it.
TokenAfterPair(line, a, b) ==
    LET tokens == Tokens(line)
        at == {k \in 1..(Len(tokens) - 2) : tokens[k] = a /\ tokens[k + 1] = b}
    IN  IF at = {} THEN "" ELSE tokens[Min(at) + 2]

\* parseInfoLine was called on the last line handed over.
Ran == Len(probe.s.parsed) = Len(probe.before.parsed) + 1

\* C13: after parseInfoLine has run on a line with the tokens 'score cp X',
\* the running evaluation is the number -X/100 when the side-to-move field of
\* the session's FEN is 'b', and X/100 when it is 'w'.
C13_CentipawnsFromWhitesSide ==
    LET X == TokenAfterPair(probe.line, "score", "cp")
        side == Tokens(probe.s.fen)[2]
        evaluation == probe.s.result.evaluation
    IN  (Ran /\ X # "") =>
          /\ side = "b" => evaluation = EvalNumber(0 - parseInt(X))
          /\ side = "w" => evaluation = EvalNumber(parseInt(X))

\* C13 witness: Black is to move, the engine reported 'score cp 35', and the
\* stored evaluation is -0.35.
C13_Witness ==
    /\ Tokens(probe.s.fen)[2] = "b"
    /\ TokenAfterPair(probe.line, "score", "cp") = "35"
    /\ probe.s.result.evaluation = EvalNumber(0 - 35)

\* C14: after parseInfoLine has run on a line with the tokens 'score mate N',
\* the running evaluation is the text 'M' followed by N as written, sign
\* included, whichever side is to move.
C14_MateKeepsItsSign ==
    LET N == TokenAfterPair(probe.line, "score", "mate")
    IN  (Ran /\ N # "") => probe.s.result.evaluation = EvalString("M" \o N)

\* C14 witness: Black is to move, the engine reported 'score mate -2', and
\* the stored evaluation is 'M-2'.
C14_Witness ==
    /\ Tokens(probe.s.fen)[2] = "b"
    /\ TokenAfterPair(probe.line, "score", "mate") = "-2"
    /\ probe.s.result.evaluation = EvalString("M-2")

\* C15: after parseInfoLine has run on a line that has a 'pv' token, the
\* principal variation is the first six (or all, if fewer) of the tokens that
\* follow that token.
C15_PvIsTheMovesAfterThePvToken ==
    LET tokens == Tokens(probe.line)
        at == {k \in 1..Len(tokens) : tokens[k] = "pv"}
    IN  (StartsWith(probe.line, "info") /\ at # {}) =>
          probe.s.result.principalVariation =
            Slice0(SubSeq(tokens, Min(at) + 1, Len(tokens)), 6)

\* The 'done' snapshot of a search that reported nothing, for move and fen.
BareDone(move, fen) ==
    [type |-> "done", evaluation |-> EvalNull, bestMove |-> move,
     principalVariation |-> <<>>, depth |-> 0, nodes |-> 0, time |-> 0,
     nps |-> NpsAbsent, fen |-> fen]

\* C16: when 'bestmove e2e4 ...' was handled on an open stream and
\* parseInfoLine has never run for the session, the session's output is
\* exactly one snapshot: 'done' with bestMove e2e4, depth, nodes and time 0,
\* evaluation null and no nps; no 'info' snapshot was emitted.
C16_BestmoveWithoutInfo ==
    \A i \in Sessions :
        (/\ sess[i].finished
         /\ sess[i].parsed = <<>>
         /\ (~sess[i].threw \/ DonePositions(Out(i)) # {}))
            => Out(i) = <<BareDone("e2e4", sess[i].fen)>>

\* C16 witness: the bestmove line was handled before any info line and the
\* stream holds the single bare 'done' snapshot.
C16_Witness ==
    \E i \in Sessions :
        /\ sess[i].finished /\ sess[i].parsed = <<>>
        /\ Out(i) = <<BareDone("e2e4", sess[i].fen)>>
        /\ sess[i].closed

\* C17: no 'info' snapshot carries nps; a 'done' snapshot carries nps exactly
\* when its time is greater than 0, and then nps is the integer nearest to
\* nodes * 1000 / time (a half rounds up).
C17_NpsOnlyInDoneWhenTimeRan ==
    \A k \in 1..Len(probe.s.out) :
        LET snap == probe.s.out[k]
            diff == snap.nodes * 1000 - snap.nps.value * snap.time
        IN  /\ IsInfo(snap) => ~snap.nps.present
            /\ IsDone(snap) =>
                  /\ snap.nps.present <=> snap.time > 0
                  /\ snap.nps.present =>
                        (0 - snap.time <= 2 * diff /\ 2 * diff < snap.time)

\* C17 witness: the search ended after 4000 ms and 2000000 nodes, and the
\* 'done' snapshot reports 500000 nodes per second after an 'info' snapshot
\* without nps.
C17_Witness ==
    /\ Len(probe.s.out) >= 2
    /\ IsInfo(probe.s.out[1]) /\ ~probe.s.out[1].nps.present
    /\ LET snap == probe.s.out[Len(probe.s.out)]
       IN  /\ IsDone(snap)
           /\ snap.time = 4000 /\ snap.nodes = 2000000
           /\ snap.nps = NpsOf(500000)

\* The session's output holds an error snapshot whose text starts with p.
Reported(i, p) ==
    \E k \in ErrorPositions(Out(i)) : StartsWith(Out(i)[k].error, p)

\* The session has a handler installed on channel c.
Installed(i, c) ==
    chan[c].onmessage = i \/ chan[c].onerror = i \/ chan[c].onclose = i

\* C18: a call returns early exactly when it has reported a failed start, and
\* then that report is its whole output, the stream is closed, its timer was
\* never armed, it has no handler installed on any channel and it has sent no
\* command.
C18_StartFailureStopsTheSession ==
    \A i \in Sessions :
        /\ sess[i].pc = "Returned" <=> Reported(i, "Failed to start Stockfish: ")
        /\ sess[i].pc = "Returned" =>
              /\ Len(Out(i)) = 1
              /\ sess[i].closed
              /\ sess[i].timer = "None"
              /\ sess[i].sent = <<>>
              /\ \A c \in Channels :
                    ~Installed(i, c) /\ WrittenBy(i, c) = <<>>

\* C18 witness: a start has failed and the failure was reported.
C18_Witness ==
    \E i \in Sessions :
        /\ sess[i].pc = "Returned"
        /\ Out(i) = <<ErrorSnapshot("Failed to start Stockfish: Error: spawn EACCES")>>

\* C19: once the catch around the command writes has run, the timer is
\* cancelled, the channel is terminated, the stream is closed with exactly
\* one snapshot, an error, in it, and the commands sent are the fewer than
\* four that were written before the failing one; this stays so whatever
\* event arrives later.
C19_WriteFailureEndsTheSession ==
    \A i \in Sessions :
        "catch" \in sess[i].kills =>
            /\ sess[i].timer = "Cleared"
            /\ chan[sess[i].ch].terminated
            /\ sess[i].closed
            /\ Len(Out(i)) = 1 /\ ErrorPositions(Out(i)) = {1}
            /\ Len(sess[i].sent) < 4
            /\ WrittenBy(i, sess[i].ch) = sess[i].sent

\* C19 witness: the third write raised, and a later event ran a handler of
\* the session, which could add nothing.
C19_Witness ==
    \E i \in Sessions :
        /\ "catch" \in sess[i].kills
        /\ Len(sess[i].sent) = 2
        /\ sess[i].threw
        /\ Out(i) = <<ErrorSnapshot("Failed to communicate with Stockfish")>>

\* C20: once a session has reported a channel-level error event, its timer
\* is not pending and its channel has been killed / terminated.
C20_ChannelErrorTerminatesTheChannel ==
    \A i \in Sessions :
        (Reported(i, "Stockfish process error: ")
           \/ Reported(i, "Stockfish error: "))
            => /\ sess[i].timer # "Armed"
               /\ chan[sess[i].ch].terminated

\* C21: when the process emits 'close' for a session whose stream is still
\* open: if no bestmove line was handled and the exit code is neither 0 nor
\* null, the handler appends the error snapshot 'Stockfish exited with code
\* <code>' and closes the stream; in every other case, and always once 'done'
\* is in the output, the event adds nothing to the output.
C21_UnexpectedExitIsReported ==
    [][\A c \in Channels :
         (~chan[c].exited /\ chan'[c].exited) =>
            LET i == chan[c].onclose
                code == chan'[c].code
                bad == code # CodeOf(0) /\ code # CodeNull
            IN  /\ (~sess[i].finished /\ ~sess[i].closed /\ bad) =>
                      /\ sess'[i].out = Append(sess[i].out,
                            [error |-> "Stockfish exited with code 1"])
                      /\ sess'[i].closed
                /\ (~sess[i].closed /\ ~bad) =>
                      (sess'[i].out = sess[i].out /\ ~sess'[i].closed)
                /\ DonePositions(sess[i].out) # {} =>
                      sess'[i].out = sess[i].out]_vars

\* C21 witness: the process exited with code 1 before any bestmove line and
\* the session reported it as its only snapshot after one 'info'.
C21_Witness ==
    \E i \in Sessions :
        /\ sess[i].ch # 0
        /\ chan[sess[i].ch].exited /\ chan[sess[i].ch].code = CodeOf(1)
        /\ ~sess[i].finished /\ sess[i].closed /\ ~sess[i].threw
        /\ Len(Out(i)) = 2 /\ IsInfo(Out(i)[1])
        /\ Out(i)[2] = [error |-> "Stockfish exited with code 1"]

\* C22: once 'done' is in a session's output, its timer is not pending and
\* kill / terminate was called on its channel by the bestmove branch.
C22_DoneCancelsTimerAndKills ==
    \A i \in Sessions :
        DonePositions(Out(i)) # {} =>
            /\ sess[i].finished
            /\ sess[i].timer = "Cleared"
            /\ "bestmove" \in sess[i].kills
            /\ chan[sess[i].ch].terminated

\* C22 witness: a session is done after a search that reported a depth.
C22_Witness ==
    \E i \in Sessions :
        /\ Len(Out(i)) = 2 /\ IsInfo(Out(i)[1]) /\ IsDone(Out(i)[2])
        /\ sess[i].kills = {"bestmove"}
        /\ sess[i].closed

IsDigits(tok) == tok # "" /\ \A j \in 1..Len(tok) : Char(tok, j) \in Digits

IsSigned(tok) ==
    IsDigits(tok) \/ (Char(tok, 1) = "-" /\ IsDigits(SubSeq(tok, 2, Len(tok))))

\* The line has the token key followed by an unsigned integer.
CarriesNumber(line, key) ==
    \E k \in 1..(Len(Tokens(line)) - 1) :
        Tokens(line)[k] = key /\ IsDigits(Tokens(line)[k + 1])

\* The line has the tokens 'score' kind followed by an integer.
CarriesScore(line, kind) ==
    \E k \in 1..(Len(Tokens(line)) - 2) :
        /\ Tokens(line)[k] = "score" /\ Tokens(line)[k + 1] = kind
        /\ IsSigned(Tokens(line)[k + 2])

\* The line has the token 'pv' followed by at least one more token.
CarriesPv(line) ==
    \E k \in 1..(Len(Tokens(line)) - 1) : Tokens(line)[k] = "pv"

\* C23: when parseInfoLine has run on a line, every field among depth,
\* nodes, time, evaluation and principalVariation of which the line carries
\* no well-formed occurrence has kept its value, and bestMove, nps and fen
\* have kept theirs.
C23_AbsentFieldsAreUntouched ==
    LET line == probe.line
        r0 == probe.before.result
        r1 == probe.s.result
    IN  Ran =>
          /\ ~CarriesNumber(line, "depth") => r1.depth = r0.depth
          /\ ~CarriesNumber(line, "nodes") => r1.nodes = r0.nodes
          /\ ~CarriesNumber(line, "time") => r1.time = r0.time
          /\ (~CarriesScore(line, "cp") /\ ~CarriesScore(line, "mate"))
                => r1.evaluation = r0.evaluation
          /\ ~CarriesPv(line)
                => r1.principalVariation = r0.principalVariation
          /\ r1.bestMove = r0.bestMove /\ r1.nps = r0.nps /\ r1.fen = r0.fen

\* C24: a line that is neither an 'info' line with a depth token nor a
\* 'bestmove' line leaves the running result, the last emitted depth, the
\* timer and the output as they were.
C24_OtherLinesAreIgnored ==
    LET line == probe.line
        infoDepth == StartsWith(line, "info")
                       /\ \E k \in 1..Len(Tokens(line)) : Tokens(line)[k] = "depth"
    IN  (probe.n > 0 /\ ~infoDepth /\ ~StartsWith(line, "bestmove")) =>
          /\ probe.s.result = probe.before.result
          /\ probe.s.lastDepth = probe.before.lastDepth
          /\ probe.s.timer = probe.before.timer
          /\ probe.s.out = probe.before.out

\* An 'info' line that has a depth token.
InfoWithDepthToken(line) ==
    /\ StartsWith(line, "info")
    /\ \E k \in 1..Len(Tokens(line)) : Tokens(line)[k] = "depth"

\* parseInfoLine applied, in order, to the info lines with a depth token.
RECURSIVE ParseAll(_, _)
ParseAll(lines, result) ==
    IF lines = <<>> THEN result
    ELSE ParseAll(Tail(lines),
                  IF InfoWithDepthToken(Head(lines))
                  THEN parseInfoLine(Head(lines), result) ELSE result)

\* The lines handed over before the first bestmove line.
BeforeBestmove(lines) ==
    LET at == {k \in 1..Len(lines) : StartsWith(lines[k], "bestmove")}
    IN  IF at = {} THEN lines ELSE SubSeq(lines, 1, Min(at) - 1)

\* C25: the 'done' snapshot carries the evaluation, nodes, time and
\* principal variation that result from applying parseInfoLine, in arrival
\* order, to every info line with a depth token that came before the
\* bestmove line, whether or not the line made an 'info' snapshot.
C25_DoneCarriesLatestValues ==
    \A k \in DonePositions(probe.s.out) :
        LET snap == probe.s.out[k]
            r == ParseAll(BeforeBestmove(probe.lines), NewResult(probe.s.fen))
        IN  /\ snap.evaluation = r.evaluation
            /\ snap.nodes = r.nodes
            /\ snap.time = r.time
            /\ snap.principalVariation = r.principalVariation

\* The fields of a running result under the given snapshot type.
Shows(type, r) ==
    [type |-> type, evaluation |-> r.evaluation, bestMove |-> r.bestMove,
     principalVariation |-> r.principalVariation, depth |-> r.depth,
     nodes |-> r.nodes, time |-> r.time, nps |-> r.nps, fen |-> r.fen]

\* C26: handling a line leaves every snapshot already in the output as it
\* was; a snapshot the line adds shows the running result as it is after
\* that line; and every snapshot carries the fen the session was started
\* with.
C26_SnapshotsAreCopies ==
    LET old == probe.before.out
        new == probe.s.out
    IN  /\ Len(old) <= Len(new) /\ SubSeq(new, 1, Len(old)) = old
        /\ \A k \in (Len(old) + 1)..Len(new) :
              new[k] = Shows(new[k].type, probe.s.result)
        /\ \A k \in 1..Len(new) : new[k].fen = probe.s.fen
        /\ probe.s.fen \in {body.fen : body \in Requests}
        /\ probe.n > 0 => probe.s.fen = probe.before.fen

\* C26 witness: an 'info' snapshot emitted for depth 1 still shows depth 1
\* and its own score after a later line changed the running result and
\* added a second snapshot.
C26_Witness ==
    /\ Len(probe.s.out) = 2 /\ Len(probe.before.out) = 1
    /\ IsInfo(probe.s.out[1]) /\ probe.s.out[1].depth = 1
    /\ probe.s.out[1] = probe.before.out[1]
    /\ probe.s.result.depth = 4
    /\ probe.s.out[1].evaluation # probe.s.result.evaluation

\* C27: in evaluatePosition no piece of text is dispatched before it is a
\* complete line, no complete line is dispatched twice, and a resolved
\* promise carries the best move and the depth of the complete lines of the
\* engine's text (e2e4 and 12 for both texts).
C27_PromiseRouteDispatchesCompleteLinesOnce ==
    /\ ~probe.partial
    /\ ~probe.again
    /\ probe.settled = "resolved" =>
          (probe.value.bestMove = "e2e4" /\ probe.value.depth = 12)

\* C28: no handler of a session ever ends with the exception that
\* controller.enqueue and controller.close raise on a closed stream.
C28_NoWriteAfterClose ==
    \A i \in Sessions : ~sess[i].threw

\* C29: a session's timer is armed only from the never-armed state, and in
\* no state reached by a step is the stream closed while the timer is still
\* pending.
C29_TimerArmedOnceAndCancelled ==
    [][\A i \in Sessions :
         /\ (sess'[i].timer = "Armed" /\ sess[i].timer # "Armed")
               => sess[i].timer = "None"
         /\ sess'[i].closed => sess'[i].timer # "Armed"]_vars

\* C29 witness: the process reported an error, the session ended on it with
\* its timer cancelled, and the process later exited.
C29_Witness ==
    \E i \in Sessions :
        /\ Reported(i, "Stockfish process error: ")
        /\ sess[i].closed /\ sess[i].timer = "Cleared"
        /\ chan[sess[i].ch].exited

\* handleMessage applied to the lines in order.
RECURSIVE HandleAll(_, _)
HandleAll(lines, evaluation) ==
    IF lines = <<>> THEN evaluation
    ELSE HandleAll(Tail(lines), handleMessage(Head(lines), evaluation))

\* C30: every resolved call of the hook's evaluatePosition was resolved by
\* the bestmove line of its own search and holds exactly what handleMessage
\* makes of its own search's lines; and when no call is pending no listener
\* is registered.
C30_HookCallsAreIsolated ==
    /\ \A i \in HookCalls :
          probe.calls[i].state = "resolved" =>
            /\ probe.calls[i].on = i
            /\ probe.calls[i].evaluation =
                  HandleAll(Script(probe.calls[i].body), HookEvaluation)
    /\ (\A i \in HookCalls : probe.calls[i].state # "pending")
          => probe.listeners = {}

\* C31: once the component has unmounted with the engine worker created
\* and stored in the hook's state, that worker is terminated.
C31_UnmountTerminatesTheWorker ==
    (~probe.mounted /\ probe.engine # 0) => probe.worker = "terminated"

\* C32: in the StockfishEval component, once no request is in flight and
\* an evaluation is displayed without error, it is the evaluation of the
\* most recent request; and loading is true while a request is in flight.
C32_LatestRequestWins ==
    /\ (probe.inflight = {} /\ probe.of # 0 /\ ~probe.error.set)
          => probe.of = Len(probe.made)
    /\ probe.inflight # {} => probe.loading

\* C33: after the StockfishEval client handled a response body of info
\* snapshots followed by a done snapshot, the done snapshot is the displayed
\* evaluation and there is no error; after a body that is one error object
\* the component is in the error state and the error object is not stored
\* as the evaluation.
C33_ClientConsumesTheStream ==
    LET text == probe.lastBody
    IN  /\ (Len(text) >= 2 /\ IsDone(text[Len(text)])
             /\ \A k \in 1..(Len(text) - 1) : IsInfo(text[k]))
           => (probe.evaluation = text[Len(text)] /\ ~probe.error.set)
        /\ (Len(text) = 1 /\ IsError(text[1]))
           => (probe.error.set /\ probe.evaluation # text[1])

C35_BoardShowsTheMoveMade ==
    /\ probe.op \in {"drop", "reply"}
         => probe.fens[probe.step + 1] = Fen(probe.game)
    /\ probe.op = "rejected"
         => /\ probe.fens = probe.before.fens
            /\ probe.step = probe.before.step
            /\ probe.timers = probe.before.timers

====
